---- MODULE Spec2Model ----
(***************************************************************************)
(* Model of the data transformation pipeline of app/main.py: timestamp     *)
(* inference, column validation, grouping, deduplication, sorting, search, *)
(* pagination and the request handlers that compose them over a table      *)
(* fetched through a TTL cache.                                            *)
(*                                                                         *)
(* Text is modelled as sequences of character codes, a cell as a tagged    *)
(* scalar, a table (DataFrame) as its column list and its rows, every row  *)
(* carrying its index label.                                               *)
(***************************************************************************)
EXTENDS Integers, Sequences, FiniteSets, TLC

VARIABLES
    sheet,      \* the upstream worksheet's current contents (a table)
    cache,      \* the TTLCache entry of the sheet: <<>> or <<table>>
    pc,         \* position of the request handler being executed
    req,        \* the request: the endpoint and sort_order, which several stages read
    df,         \* the handler's local df
    original_df,\* index(): the handler's local original_df; api_*: the first fetch
    loc,        \* the handler's locals: error_message, grouped, deduplicated, ...
    resp,       \* the response returned (or the exception that ended the request)
    hist,       \* history: what each stage was asked and what it did
    arg,        \* function harness: the arguments of the call
    res         \* function harness: the value returned

vars == <<sheet, cache, pc, req, df, original_df, loc, resp, hist, arg, res>>

pipeVars == <<sheet, cache, pc, req, df, original_df, loc, resp, hist>>
fnVars == <<arg, res>>

----------------------------------------------------------------------------
(* Characters and text *)

ChHyphen == 45
ChSlash == 47
ChColon == 58
ChSpace == 32
ChZero == 48

\* A one- or two-digit field rendered zero-padded, and a four-digit year.
D2(n) == <<ChZero + (n \div 10), ChZero + (n % 10)>>
D4(n) == <<ChZero + (n \div 1000), ChZero + ((n \div 100) % 10),
           ChZero + ((n \div 10) % 10), ChZero + (n % 10)>>

IsDigit(c) == c >= ChZero /\ c <= ChZero + 9

\* The number a run of digits s[i..j] denotes.
RECURSIVE Num(_, _, _)
Num(s, i, j) == IF j < i THEN 0 ELSE 10 * Num(s, i, j - 1) + (s[j] - ChZero)

AllDigits(s, i, j) == \A k \in i..j : IsDigit(s[k])

\* Python's sequence comparison of two texts (str.__lt__): code point by code point.
RECURSIVE TextLess(_, _)
TextLess(a, b) ==
    IF b = <<>> THEN FALSE
    ELSE IF a = <<>> THEN TRUE
    ELSE IF Head(a) # Head(b) THEN Head(a) < Head(b)
    ELSE TextLess(Tail(a), Tail(b))

\* str.lower() on the ASCII range.
Lower(s) == [i \in 1..Len(s) |-> IF s[i] >= 65 /\ s[i] <= 90 THEN s[i] + 32 ELSE s[i]]

\* `a in b` for texts.
Contains(b, a) ==
    \E i \in 0..(Len(b) - Len(a)) : \A k \in 1..Len(a) : b[i + k] = a[k]

\* str.strip() of the request parameters the model uses: all-blank text is empty.
RECURSIVE Strip(_)
Strip(s) ==
    IF s = <<>> THEN s
    ELSE IF Head(s) = ChSpace THEN Strip(Tail(s))
    ELSE IF s[Len(s)] = ChSpace THEN Strip(SubSeq(s, 1, Len(s) - 1))
    ELSE s

----------------------------------------------------------------------------
(* Calendar *)

IsLeap(y) == (y % 4 = 0 /\ y % 100 # 0) \/ y % 400 = 0

DaysInMonth(y, m) ==
    IF m = 2 THEN (IF IsLeap(y) THEN 29 ELSE 28)
    ELSE IF m \in {4, 6, 9, 11} THEN 30 ELSE 31

\* Days since 1970-01-01 of a civil date (proleptic Gregorian), as datetime orders dates.
DaysFromCivil(y, m, d) ==
    LET yy == IF m <= 2 THEN y - 1 ELSE y
        era == yy \div 400
        yoe == yy - era * 400
        mp == IF m > 2 THEN m - 3 ELSE m + 9
        doy == (153 * mp + 2) \div 5 + d - 1
        doe == yoe * 365 + yoe \div 4 - yoe \div 100 + doy
    IN era * 146097 + doe - 719468

\* The civil date <<y, m, d>> of a day number.
CivilFromDays(z0) ==
    LET z == z0 + 719468
        era == z \div 146097
        doe == z - era * 146097
        yoe == (doe - doe \div 1460 + doe \div 36524 - doe \div 146096) \div 365
        doy == doe - (365 * yoe + yoe \div 4 - yoe \div 100)
        mp == (5 * doy + 2) \div 153
        d == doy - (153 * mp + 2) \div 5 + 1
        m == IF mp < 10 THEN mp + 3 ELSE mp - 9
        y == yoe + era * 400 + (IF m <= 2 THEN 1 ELSE 0)
    IN <<y, m, d>>

\* Monday = 0 ... Sunday = 6, as datetime.weekday().
Weekday(days) == (days + 3) % 7

\* A datetime value: the day number and the second of the day.
MkTime(y, m, d, hh, mi, ss) == [day |-> DaysFromCivil(y, m, d), sec |-> hh * 3600 + mi * 60 + ss]

\* datetime.__lt__ / __le__
TimeLess(a, b) == a.day < b.day \/ (a.day = b.day /\ a.sec < b.sec)
TimeLeq(a, b) == ~TimeLess(b, a)

\* str(datetime.date): ISO text of a day number.
IsoDate(days) ==
    LET c == CivilFromDays(days)
    IN D4(c[1]) \o <<ChHyphen>> \o D2(c[2]) \o <<ChHyphen>> \o D2(c[3])

----------------------------------------------------------------------------
(* Cells *)

Null == [k |-> "null", v |-> <<>>]
Str(s) == [k |-> "str", v |-> s]
IntCell(n) == [k |-> "int", v |-> <<n>>]
Date(days) == [k |-> "date", v |-> <<days>>]

\* pd.isna(value)
IsNa(cell) == cell.k = "null"

\* Decimal text of a natural number.
RECURSIVE NatText(_)
NatText(n) == IF n < 10 THEN <<ChZero + n>> ELSE NatText(n \div 10) \o <<ChZero + (n % 10)>>

\* str(value): a missing value reads "nan".
StrOf(cell) ==
    CASE cell.k = "str" -> cell.v
      [] cell.k = "int" -> NatText(cell.v[1])
      [] cell.k = "date" -> IsoDate(cell.v[1])
      [] OTHER -> <<110, 97, 110>>

----------------------------------------------------------------------------
(* Timestamp Inference: parse_timestamp *)

NoMatch == <<>>

\* pandas' NaT, the value pd.to_datetime returns for the texts it reads as missing: it
\* is not None, and isna()/notna() count it as missing (sec = -1 belongs to no time).
NaT == <<[day |-> 0, sec |-> 0 - 1]>>

\* The texts pd.to_datetime reads as NaT: "NaT", "nat", "NAT", "nan", "NaN", "NAN".
NatStrings ==
    {<<78, 97, 84>>, <<110, 97, 116>>, <<78, 65, 84>>,
     <<110, 97, 110>>, <<78, 97, 78>>, <<78, 65, 78>>}

\* Series.notna() on a parsed value: a timestamp, neither None nor NaT.
TsNotNa(ts) == ts # NoMatch /\ ts # NaT

ValidDate(y, m, d) == m >= 1 /\ m <= 12 /\ d >= 1 /\ d <= DaysInMonth(y, m)
ValidClock(hh, mi, ss) == hh <= 23 /\ mi <= 59 /\ ss <= 59

\* s[i..i+7] reads HH:MM:SS.
ClockAt(s, i) ==
    /\ AllDigits(s, i, i + 1) /\ s[i + 2] = ChColon
    /\ AllDigits(s, i + 3, i + 4) /\ s[i + 5] = ChColon
    /\ AllDigits(s, i + 6, i + 7)
    /\ ValidClock(Num(s, i, i + 1), Num(s, i + 3, i + 4), Num(s, i + 6, i + 7))

\* s[1..10] reads YYYY<sep>MM<sep>DD.
YmdAt(s, sep) ==
    /\ AllDigits(s, 1, 4) /\ s[5] = sep /\ AllDigits(s, 6, 7) /\ s[8] = sep
    /\ AllDigits(s, 9, 10)
    /\ ValidDate(Num(s, 1, 4), Num(s, 6, 7), Num(s, 9, 10))

\* s[1..10] reads MM/DD/YYYY.
MdyAt(s) ==
    /\ AllDigits(s, 1, 2) /\ s[3] = ChSlash /\ AllDigits(s, 4, 5) /\ s[6] = ChSlash
    /\ AllDigits(s, 7, 10)
    /\ ValidDate(Num(s, 7, 10), Num(s, 1, 2), Num(s, 4, 5))

\* datetime.strptime(s, '%Y-%m-%d %H:%M:%S') and '%Y-%m-%dT%H:%M:%S' (sep = ' ' or 'T')
StrptimeYmdHms(s, sep) ==
    IF Len(s) = 19 /\ YmdAt(s, ChHyphen) /\ s[11] = sep /\ ClockAt(s, 12)
    THEN <<MkTime(Num(s, 1, 4), Num(s, 6, 7), Num(s, 9, 10),
                  Num(s, 12, 13), Num(s, 15, 16), Num(s, 18, 19))>>
    ELSE NoMatch

\* datetime.strptime(s, '%Y-%m-%d')
StrptimeYmd(s) ==
    IF Len(s) = 10 /\ YmdAt(s, ChHyphen)
    THEN <<MkTime(Num(s, 1, 4), Num(s, 6, 7), Num(s, 9, 10), 0, 0, 0)>>
    ELSE NoMatch

\* datetime.strptime(s, '%m/%d/%Y')
StrptimeMdy(s) ==
    IF Len(s) = 10 /\ MdyAt(s)
    THEN <<MkTime(Num(s, 7, 10), Num(s, 1, 2), Num(s, 4, 5), 0, 0, 0)>>
    ELSE NoMatch

\* datetime.strptime(s, '%m/%d/%Y %H:%M:%S')
StrptimeMdyHms(s) ==
    IF Len(s) = 19 /\ MdyAt(s) /\ s[11] = ChSpace /\ ClockAt(s, 12)
    THEN <<MkTime(Num(s, 7, 10), Num(s, 1, 2), Num(s, 4, 5),
                  Num(s, 12, 13), Num(s, 15, 16), Num(s, 18, 19))>>
    ELSE NoMatch

\* pd.to_datetime(value), the lenient fallback, on the texts no strict format takes:
\* it reads YYYY/MM/DD, returns NaT for the texts it reads as missing and raises on
\* the rest of the model's vocabulary.
LenientParse(s) ==
    IF Len(s) = 10 /\ YmdAt(s, ChSlash)
    THEN <<MkTime(Num(s, 1, 4), Num(s, 6, 7), Num(s, 9, 10), 0, 0, 0)>>
    ELSE IF s \in NatStrings THEN NaT
    ELSE NoMatch

\* The first format of the list that matches, then the fallback.
\* (The fractional-second and trailing-Z formats take no text of the vocabulary.)
FirstMatch(tries) ==
    IF \E i \in 1..Len(tries) : tries[i] # NoMatch
    THEN tries[CHOOSE i \in 1..Len(tries) :
                 tries[i] # NoMatch /\ \A j \in 1..(i - 1) : tries[j] = NoMatch]
    ELSE NoMatch

\* parse_timestamp(value): <<t>>, NaT or NoMatch (None).
parse_timestamp(value) ==
    IF IsNa(value) \/ value = Str(<<>>) THEN NoMatch
    ELSE LET s == StrOf(value)
         IN FirstMatch(<<StrptimeYmdHms(s, ChSpace), StrptimeYmdHms(s, 84),
                         StrptimeYmd(s), StrptimeMdy(s), StrptimeMdyHms(s),
                         LenientParse(s)>>)

\* parse_timestamp(value) is not None
Parses(value) == parse_timestamp(value) # NoMatch

\* The value parses: Timestamp Inference gives a timestamp for it.
ParsesToTimestamp(value) == TsNotNa(parse_timestamp(value))

----------------------------------------------------------------------------
(* Tables *)

\* A DataFrame: its columns and its rows in order; a row carries its index label
\* (the position it had in the fetched table) and its cells by column.
MkTable(cols, rows) == [cols |-> cols, rows |-> rows]
MkRow(i, cells) == [idx |-> i, c |-> cells]

\* col in df.columns
HasColumn(t, col) == \E i \in 1..Len(t.cols) : t.cols[i] = col

Range(s) == {s[i] : i \in 1..Len(s)}

\* df.head(n) / s[:n]
Take(s, n) == SubSeq(s, 1, IF n < Len(s) THEN n ELSE Len(s))

\* All orderings of the elements of s (s has no repeated element: rows differ in idx).
Perms(s) ==
    {p \in [1..Len(s) -> Range(s)] : \A i, j \in 1..Len(s) : i # j => p[i] # p[j]}

\* sort_values(..., kind='quicksort'), the default: the result is ordered by the key,
\* and the order among rows of equal key is whatever the sort leaves (quicksort is not
\* stable), so every ordering that respects the key is a possible outcome.
\* Leq(a, b): a's key may stand before b's.
SortOutcomes(s, Leq(_, _)) ==
    {p \in Perms(s) : \A i \in 1..(Len(s) - 1) : Leq(p[i], p[i + 1])}

\* A faulty drop_duplicates: a row is compared with the row just before it only.
DropDuplicatesAdjacent(s, col) ==
    LET keepAt(i) == i = 1 \/ s[i - 1].c[col] # s[i].c[col]
        RECURSIVE walk(_)
        walk(i) == IF i > Len(s) THEN <<>>
                   ELSE IF keepAt(i) THEN <<s[i]>> \o walk(i + 1) ELSE walk(i + 1)
    IN walk(1)

\* drop_duplicates(subset=[col], keep='first'): a row stays iff no earlier row has its key.
DropDuplicatesKeepFirst(s, col) ==
    LET keepAt(i) == \A j \in 1..(i - 1) : s[j].c[col] # s[i].c[col]
        RECURSIVE walk(_)
        walk(i) == IF i > Len(s) THEN <<>>
                   ELSE IF keepAt(i) THEN <<s[i]>> \o walk(i + 1) ELSE walk(i + 1)
    IN walk(1)

----------------------------------------------------------------------------
(* Column Validator: validate_timestamp_column *)

\* min(50, len(col_data))
SampleCap == 50

\* The 0.7 of `valid_percentage < 0.7`, as the fraction ThresholdNum / ThresholdDen
\* (the float quotient of two integers up to 50 is below the float 0.7 exactly when the
\* rational is below 7/10).
ThresholdNum == 7
ThresholdDen == 10

\* df[timestamp_col].dropna(): the non-null cells of the column, in row order.
ColumnDropNa(t, col) ==
    LET cells == [i \in 1..Len(t.rows) |-> t.rows[i].c[col]]
        NotNa(x) == ~IsNa(x)
    IN SelectSeq(cells, NotNa)

\* col_data.head(sample_size)
SampleOf(col_data) == Take(col_data, IF SampleCap < Len(col_data) THEN SampleCap ELSE Len(col_data))

\* A faulty count: every sampled value is taken as a timestamp.
CountSampled(sample_data) == Len(sample_data)

\* valid_timestamps: how many sampled values parse.
CountParsed(sample_data) == Cardinality({i \in 1..Len(sample_data) : Parses(sample_data[i])})

\* A faulty threshold test: valid_percentage <= 0.7.
BelowOrAtThreshold(valid_timestamps, sample_size) ==
    ThresholdDen * valid_timestamps <= ThresholdNum * sample_size

\* valid_percentage < 0.7
BelowThreshold(valid_timestamps, sample_size) ==
    ThresholdDen * valid_timestamps < ThresholdNum * sample_size

\* validate_timestamp_column(df, timestamp_col): the pair (is_valid, message); the
\* message is kept as its kind and the column it names.
validate_timestamp_column(t, timestamp_col) ==
    IF ~HasColumn(t, timestamp_col)
    THEN [valid |-> FALSE, message |-> <<"Column not found", timestamp_col>>]
    ELSE LET col_data == ColumnDropNa(t, timestamp_col)
             sample_data == SampleOf(col_data)
         IN IF Len(col_data) = 0
            THEN [valid |-> FALSE, message |-> <<"Column contains no data", timestamp_col>>]
            ELSE IF BelowThreshold(CountParsed(sample_data), Len(sample_data))
            THEN [valid |-> FALSE,
                  message |-> <<"Column contains insufficient valid timestamp data", timestamp_col>>]
            ELSE [valid |-> TRUE, message |-> <<"Column validated successfully", timestamp_col>>]

----------------------------------------------------------------------------
(* Results of the stage functions: a returned value or a raised ValueError *)

Raise(message) == [ok |-> FALSE, error |-> message]
ReturnDf(t) == [ok |-> TRUE, df |-> t]
ReturnDedup(t, n) == [ok |-> TRUE, df |-> t, removed |-> n]

\* A faulty test: every order but 'desc' is ascending.
AscendingUnlessDesc(sort_order) == sort_order # "desc"

\* sort_order == 'asc'
Ascending(sort_order) == sort_order = "asc"

\* df['_parsed_timestamp'] = df[col].apply(parse_timestamp): every row with its
\* parsed value (<<t>>, NaT or NoMatch) beside its cells.
WithParsed(rows, col) ==
    [i \in 1..Len(rows) |->
        [idx |-> rows[i].idx, c |-> rows[i].c, ts |-> parse_timestamp(rows[i].c[col])]]

\* df[df['_parsed_timestamp'].notna()]
RowsWithTimestamps(rows) ==
    LET HasTs(r) == TsNotNa(r.ts)
    IN SelectSeq(rows, HasTs)

\* drop(columns=['_parsed_timestamp'])
DropParsed(rows) == [i \in 1..Len(rows) |-> MkRow(rows[i].idx, rows[i].c)]

\* sort_values('_parsed_timestamp', ascending=...): the possible orders.
SortByParsed(rows, ascending) ==
    LET Leq(a, b) == IF ascending THEN TimeLeq(a.ts[1], b.ts[1])
                     ELSE TimeLeq(b.ts[1], a.ts[1])
    IN SortOutcomes(rows, Leq)

\* sort_values(timestamp_field, ascending=...): the column's own values are compared,
\* texts as texts; the possible orders.
SortByColumnValue(rows, col, ascending) ==
    LET Leq(a, b) == IF ascending THEN ~TextLess(StrOf(b.c[col]), StrOf(a.c[col]))
                     ELSE ~TextLess(StrOf(a.c[col]), StrOf(b.c[col]))
    IN SortOutcomes(rows, Leq)

----------------------------------------------------------------------------
(* Deduplicator: deduplicate_by_field *)

\* A faulty count: the rows dropped for an unparseable timestamp are left out.
DuplicatesRemovedOfParsed(original_count, parsed_count, deduped_count) ==
    parsed_count - deduped_count

\* duplicates_removed = original_count - len(df_deduped)
DuplicatesRemoved(original_count, parsed_count, deduped_count) ==
    original_count - deduped_count

\* Lines 263-270: sort latest first, keep the first row of each key, sort by the
\* timestamp column for the requested order. The set of possible df_deduped row lists.
DedupedRows(df_with_timestamps, dedupe_field, timestamp_field, sort_order) ==
    UNION { SortByColumnValue(DropParsed(DropDuplicatesKeepFirst(df_sorted, dedupe_field)),
                              timestamp_field, Ascending(sort_order))
            : df_sorted \in SortByParsed(df_with_timestamps, FALSE) }

\* deduplicate_by_field(df, dedupe_field, timestamp_field, sort_order): the set of
\* possible outcomes, each (df_deduped, duplicates_removed) or a ValueError.
deduplicate_by_field(t, dedupe_field, timestamp_field, sort_order) ==
    IF ~HasColumn(t, dedupe_field)
    THEN {Raise(<<"Deduplication field not found", dedupe_field>>)}
    ELSE IF ~HasColumn(t, timestamp_field)
    THEN {Raise(<<"Timestamp field not found", timestamp_field>>)}
    ELSE LET v == validate_timestamp_column(t, timestamp_field)
             df_with_timestamps == RowsWithTimestamps(WithParsed(t.rows, timestamp_field))
         IN IF ~v.valid THEN {Raise(v.message)}
            ELSE IF Len(df_with_timestamps) = 0
            THEN {Raise(<<"No valid timestamps found", timestamp_field>>)}
            ELSE { ReturnDedup(MkTable(t.cols, rows),
                               DuplicatesRemoved(Len(t.rows), Len(df_with_timestamps),
                                                 Len(rows)))
                   : rows \in DedupedRows(df_with_timestamps, dedupe_field,
                                          timestamp_field, sort_order) }

----------------------------------------------------------------------------
(* Sorter: apply_timestamp_sorting *)

\* apply_timestamp_sorting(df, sort_column, sort_order): the set of possible outcomes.
\* sort_column = "" stands for None and for the empty text.
apply_timestamp_sorting(t, sort_column, sort_order) ==
    IF sort_column = "" \/ ~HasColumn(t, sort_column) THEN {ReturnDf(t)}
    ELSE LET v == validate_timestamp_column(t, sort_column)
         IN IF ~v.valid THEN {Raise(v.message)}
            ELSE { ReturnDf(MkTable(t.cols, DropParsed(rows)))
                   : rows \in SortByParsed(RowsWithTimestamps(WithParsed(t.rows, sort_column)),
                                           Ascending(sort_order)) }

----------------------------------------------------------------------------
(* Grouper: group_by_time_period *)

\* "Week of "
WeekOf == <<87, 101, 101, 107, 32, 111, 102, 32>>

\* dt.to_period('W').start_time.date(): the Monday on or before the day.
WeekStart(day) == day - Weekday(day)

\* _sort_key of a parsed timestamp.
SortKey(ts, period) == IF period = "day" THEN ts.day ELSE WeekStart(ts.day)

\* _group_key: the bucket's label cell.
GroupLabel(key, period) ==
    IF period = "day" THEN Date(key) ELSE Str(WeekOf \o IsoDate(key))

\* f'{period.title()}_Group'
GroupColumn(period) == IF period = "day" THEN "Day_Group" ELSE "Week_Group"

\* The keys of a set of integers in increasing order.
RECURSIVE SortedKeys(_)
SortedKeys(S) ==
    IF S = {} THEN <<>>
    ELSE LET m == CHOOSE x \in S : \A y \in S : x <= y
         IN <<m>> \o SortedKeys(S \ {m})

Reverse(s) == [i \in 1..Len(s) |-> s[Len(s) + 1 - i]]

\* groupby(['_group_key', '_sort_key']).agg(count).reset_index(), then
\* sort_values('_sort_key', ascending): one row per bucket, every data column holding
\* the count of its non-null cells in the bucket. Bucket keys are distinct, so the
\* order is determined. (A value is bound through a singleton set where it is used
\* many times, so that it is computed once.)
GroupedRows(rows, cols, period, sort_order) ==
    LET keyOf(r) == SortKey(r.ts[1], period)
        count(key, col) ==
            Cardinality({i \in 1..Len(rows) : keyOf(rows[i]) = key /\ ~IsNa(rows[i].c[col])})
        bucket(key, i) ==
            MkRow(i, [col \in {GroupColumn(period)} \cup Range(cols) |->
                        IF col = GroupColumn(period) THEN GroupLabel(key, period)
                        ELSE IntCell(count(key, col))])
        buckets(keys) == [i \in 1..Len(keys) |-> bucket(keys[i], i)]
        grouped == CHOOSE g \in { buckets(keys) :
                        keys \in {SortedKeys({keyOf(rows[i]) : i \in 1..Len(rows)})} } : TRUE
    IN IF Ascending(sort_order) THEN grouped ELSE Reverse(grouped)

\* group_by_time_period(df, timestamp_col, period, sort_order)
group_by_time_period(t, timestamp_col, period, sort_order) ==
    IF ~HasColumn(t, timestamp_col) THEN Raise(<<"Column not found", timestamp_col>>)
    ELSE LET v == validate_timestamp_column(t, timestamp_col)
             grouping(parsed) ==
                 IF Len(parsed) = 0
                 THEN Raise(<<"No valid timestamps found", timestamp_col>>)
                 ELSE IF period \notin {"day", "week"}
                 THEN Raise(<<"Invalid period", period>>)
                 ELSE ReturnDf(MkTable(<<GroupColumn(period)>> \o t.cols,
                                       GroupedRows(parsed, t.cols, period, sort_order)))
         IN IF ~v.valid THEN Raise(v.message)
            ELSE CHOOSE r \in { grouping(parsed) :
                     parsed \in {RowsWithTimestamps(WithParsed(t.rows, timestamp_col))} } : TRUE

----------------------------------------------------------------------------
(* Search Filter and Pager *)

\* q and q.strip()
HasText(q) == Strip(q) # <<>>

\* df[df.apply(lambda r: any(qlow in str(v).lower() for v in r), axis=1)]
SearchRows(t, q) ==
    LET qlow == Lower(Strip(q))
        Hit(r) == \E i \in 1..Len(t.cols) : Contains(Lower(StrOf(r.c[t.cols[i]])), qlow)
    IN SelectSeq(t.rows, Hit)

Max(a, b) == IF a > b THEN a ELSE b
Min(a, b) == IF a < b THEN a ELSE b

\* A faulty start: pages counted from 0.
PageStartZeroBased(page, page_size) == Max(page * page_size, 0)

\* start = max((page - 1) * page_size, 0)
PageStart(page, page_size) == Max((page - 1) * page_size, 0)

\* df.iloc[start:end] if total else df, for 0 <= start <= end: positions start..end-1
\* (0-based) that exist.
PageSlice(rows, page, page_size) ==
    LET total == Len(rows)
        start == PageStart(page, page_size)
        end == start + page_size
    IN IF total = 0 THEN rows ELSE SubSeq(rows, start + 1, Min(end, total))

\* int(math.ceil(total / page_size)) if page_size else 1
PageCount(total, page_size) ==
    IF page_size = 0 THEN 1 ELSE (total + page_size - 1) \div page_size

----------------------------------------------------------------------------
(* The vocabulary of the bounded checks *)

IsoText(y, m, d) == D4(y) \o <<ChHyphen>> \o D2(m) \o <<ChHyphen>> \o D2(d)
UsText(m, d, y) == D2(m) \o <<ChSlash>> \o D2(d) \o <<ChSlash>> \o D4(y)
SlashText(y, m, d) == D4(y) \o <<ChSlash>> \o D2(m) \o <<ChSlash>> \o D2(d)
ClockText(hh, mi, ss) == D2(hh) \o <<ChColon>> \o D2(mi) \o <<ChColon>> \o D2(ss)

\* "2024-01-01", "2024-01-01 00:00:00" (the same instant, another text),
\* "01/01/2025" (later than both, and before both as text), "2023/12/31" (read by the
\* fallback only), "not-a-date" and a missing value.
TsIso == Str(IsoText(2024, 1, 1))
TsIsoClock == Str(IsoText(2024, 1, 1) \o <<ChSpace>> \o ClockText(0, 0, 0))
TsUs == Str(UsText(1, 1, 2025))
TsSlash == Str(SlashText(2023, 12, 31))
TsBad == Str(<<110, 111, 116, 45, 97, 45, 100, 97, 116, 101>>)

\* "2024-01-02", the day after TsIso (a Tuesday of the same week), and "NaT".
TsIsoNext == Str(IsoText(2024, 1, 2))
TsNat == Str(<<78, 97, 84>>)

TsCells == {TsIso, TsIsoClock, TsUs, TsSlash, TsBad, Null}

KeyA == Str(<<65>>)
KeyB == Str(<<66>>)
KeyCells == {KeyA, KeyB}

SheetCols == <<"UserId", "UpdatedAt">>

\* The tables with the sheet's two columns and n rows, rows labelled by position; the
\* two keys are interchangeable, so the first row's key is KeyA.
TablesOfLen(n) ==
    { MkTable(SheetCols,
              [i \in 1..n |-> MkRow(i, [UserId |-> ks[i], UpdatedAt |-> ts[i]])])
      : ks \in {k \in [1..n -> KeyCells] : n > 0 => k[1] = KeyA},
        ts \in [1..n -> TsCells] }

\* Largest table of the function checks.
MaxRows == 3

TablesUpTo(n) == UNION { TablesOfLen(k) : k \in 0..n }

\* The handler-side variables while a function is checked on its own.
PipeIdle ==
    /\ sheet = MkTable(SheetCols, <<>>) /\ cache = <<>> /\ pc = "idle"
    /\ req = <<>> /\ df = <<>> /\ original_df = <<>> /\ loc = <<>> /\ resp = <<>>
    /\ hist = <<>>

----------------------------------------------------------------------------
(* deduplicate_by_field on its own: one call, then a second call on its result *)

DedupInit ==
    /\ PipeIdle
    /\ arg \in { [df |-> t, dedupe_field |-> f, timestamp_field |-> c, sort_order |-> o]
                 : t \in TablesUpTo(MaxRows), f \in {"UserId", "Missing"},
                   c \in {"UpdatedAt"}, o \in {"asc", "desc"} }
    /\ res = <<>>

DedupCall ==
    /\ res = <<>>
    /\ \E r \in deduplicate_by_field(arg.df, arg.dedupe_field, arg.timestamp_field,
                                     arg.sort_order) :
          res' = <<r>>
    /\ UNCHANGED <<arg, pipeVars>>

DedupAgain ==
    /\ Len(res) = 1 /\ res[1].ok
    /\ \E r \in deduplicate_by_field(res[1].df, arg.dedupe_field, arg.timestamp_field,
                                     arg.sort_order) :
          res' = res \o <<r>>
    /\ UNCHANGED <<arg, pipeVars>>

DedupNext == DedupCall \/ DedupAgain

DedupSpec == DedupInit /\ [][DedupNext]_vars

----------------------------------------------------------------------------
(* Claims about deduplicate_by_field (checked under DedupSpec) *)

\* The first call returned a table.
DedupReturned == Len(res) >= 1 /\ res[1].ok

\* Positions of the input rows whose timestamp cell parses.
ParseablePos == {i \in 1..Len(arg.df.rows) : ParsesToTimestamp(arg.df.rows[i].c[arg.timestamp_field])}

InKey(i) == arg.df.rows[i].c[arg.dedupe_field]
InTime(i) == parse_timestamp(arg.df.rows[i].c[arg.timestamp_field])[1]

\* Positions holding key k with the latest timestamp of that key.
LatestPos(k) ==
    {i \in ParseablePos : InKey(i) = k /\
        \A j \in ParseablePos : InKey(j) = k => TimeLeq(InTime(j), InTime(i))}

\* Every row of the result is a row of the input, with a parseable timestamp.
ResultRowsAreInputRows ==
    \A n \in 1..Len(res[1].df.rows) :
        LET r == res[1].df.rows[n]
        IN r.idx \in ParseablePos /\ arg.df.rows[r.idx] = r

\* Exactly one result row per key occurring among the parseable rows, and it is one of
\* the rows holding the key's latest timestamp.
OneLatestRowPerKey ==
    \A k \in {InKey(i) : i \in ParseablePos} :
        /\ Cardinality({n \in 1..Len(res[1].df.rows) :
                            res[1].df.rows[n].c[arg.dedupe_field] = k}) = 1
        /\ \E n \in 1..Len(res[1].df.rows) :
              /\ res[1].df.rows[n].c[arg.dedupe_field] = k
              /\ res[1].df.rows[n].idx \in LatestPos(k)

\* Among the rows sharing a key's latest timestamp, the earliest in row order is kept.
EarliestOfTiesKept ==
    \A k \in {InKey(i) : i \in ParseablePos} :
        \A n \in 1..Len(res[1].df.rows) :
            res[1].df.rows[n].c[arg.dedupe_field] = k =>
                \A i \in LatestPos(k) : res[1].df.rows[n].idx <= i

\* C8: when deduplicate_by_field succeeds, the result holds exactly one row per key
\* occurring among the rows with a parseable timestamp, that row carries the key's
\* latest timestamp, of several rows sharing it the earliest in row order is the one
\* kept, and no row with an unparseable timestamp is in the result; duplicates_removed
\* is the number of rows gone.
C8_KeepsLatestEarliest ==
    DedupReturned =>
        /\ ResultRowsAreInputRows
        /\ OneLatestRowPerKey
        /\ EarliestOfTiesKept
        /\ res[1].removed = Len(arg.df.rows) - Len(res[1].df.rows)

\* What of C8 the code does guarantee: everything but which of the tied rows is kept.
DedupKeepsOneLatestPerKey ==
    DedupReturned =>
        /\ ResultRowsAreInputRows
        /\ OneLatestRowPerKey
        /\ res[1].removed = Len(arg.df.rows) - Len(res[1].df.rows)

\* The parsed timestamps of the result, in result order.
ResultTimes ==
    [n \in 1..Len(res[1].df.rows) |->
        parse_timestamp(res[1].df.rows[n].c[arg.timestamp_field])[1]]

\* C9: when deduplicate_by_field succeeds, the parsed timestamps of the result rows are
\* non-decreasing for 'asc' and non-increasing for 'desc'.
C9_ResultOrderedByTimestamp ==
    DedupReturned =>
        \A n \in 1..(Len(res[1].df.rows) - 1) :
            IF arg.sort_order = "asc"
            THEN TimeLeq(ResultTimes[n], ResultTimes[n + 1])
            ELSE TimeLeq(ResultTimes[n + 1], ResultTimes[n])

\* C10: deduplicating the result of a successful deduplication again, with the same
\* key column, timestamp column and order, succeeds, returns the same rows (the same
\* set of rows, as many of them) and reports 0 rows removed.
C10_DedupIdempotent ==
    (Len(res) = 2) =>
        /\ res[2].ok
        /\ res[2].removed = 0
        /\ Len(res[2].df.rows) = Len(res[1].df.rows)
        /\ Range(res[2].df.rows) = Range(res[1].df.rows)
        /\ res[2].df.cols = res[1].df.cols

\* C10 witness: a second call was made on a result from which the first call had
\* removed a duplicate and a row with an unparseable timestamp.
C10_Witness ==
    /\ Len(res) = 2
    /\ res[1].removed >= 2
    /\ \E i, j \in ParseablePos : i # j /\ InKey(i) = InKey(j)
    /\ \E i \in 1..Len(arg.df.rows) : i \notin ParseablePos

----------------------------------------------------------------------------
(* validate_timestamp_column on its own *)

\* Longest runs of the columns validated: a column is `nulls` missing values, then
\* `lead` parseable texts, `bad` unparseable texts and `tail` parseable texts, read in
\* this order or backwards.
MaxLead == 36
MaxBad == 16
MaxTail == 2
MaxNulls == 1

\* Longest of the short tables of mixed formats validated beside them.
MaxShortRows == 2

Rep(cell, n) == [i \in 1..n |-> cell]

ColumnCells(nulls, lead, bad, tail, backwards) ==
    LET cells == Rep(Null, nulls) \o Rep(TsIso, lead) \o Rep(TsBad, bad) \o Rep(TsUs, tail)
    IN IF backwards THEN Reverse(cells) ELSE cells

ColumnTable(cells) ==
    MkTable(SheetCols, [i \in 1..Len(cells) |-> MkRow(i, [UserId |-> KeyA, UpdatedAt |-> cells[i]])])

\* Short tables whose timestamp column holds texts read as NaT beside a date, a text
\* that is no date and a missing value.
NatTablesUpTo(n) ==
    UNION { { MkTable(SheetCols,
                      [i \in 1..k |-> MkRow(i, [UserId |-> KeyA, UpdatedAt |-> ts[i]])])
              : ts \in [1..k -> {TsNat, TsIso, TsBad, Null}] } : k \in 0..n }

ValidateInit ==
    /\ PipeIdle
    /\ arg \in { [df |-> ColumnTable(ColumnCells(n, l, b, t, w)), timestamp_col |-> c]
                 : n \in 0..MaxNulls, l \in 0..MaxLead, b \in 0..MaxBad, t \in 0..MaxTail,
                   w \in BOOLEAN, c \in {"UpdatedAt"} }
             \cup { [df |-> t, timestamp_col |-> c]
                    : t \in TablesUpTo(MaxShortRows) \cup NatTablesUpTo(MaxShortRows),
                      c \in {"UpdatedAt", "Missing"} }
    /\ res = <<>>

ValidateCall ==
    /\ res = <<>>
    /\ res' = <<validate_timestamp_column(arg.df, arg.timestamp_col)>>
    /\ UNCHANGED <<arg, pipeVars>>

ValidateNext == ValidateCall

ValidateSpec == ValidateInit /\ [][ValidateNext]_vars

\* The cell of the validated column at row i.
ColCell(i) == arg.df.rows[i].c[arg.timestamp_col]

\* Row positions of the sample: the non-null cells that have fewer than 50 non-null
\* cells before them.
SamplePos ==
    {i \in 1..Len(arg.df.rows) :
        /\ ~IsNa(ColCell(i))
        /\ Cardinality({j \in 1..(i - 1) : ~IsNa(ColCell(j))}) < 50}

SampleParsed == Cardinality({i \in SamplePos : ParsesToTimestamp(ColCell(i))})

\* The sample is the first min(50, k) of the k non-null values in row order, and the
\* column is valid iff 10 * parsed >= 7 * sample; an absent column and a column with
\* no non-null value are invalid.
ThresholdDecides ==
    IF ~HasColumn(arg.df, arg.timestamp_col) THEN ~res[1].valid
    ELSE LET sample == SamplePos
             parsed == Cardinality({i \in sample : ParsesToTimestamp(ColCell(i))})
         IN IF sample = {} THEN ~res[1].valid
            ELSE res[1].valid <=> (10 * parsed >= 7 * Cardinality(sample))

\* C7: validate_timestamp_column returns a pair and never raises; an absent column and
\* a column with no non-null value are invalid; otherwise the sample is the first
\* min(50, k) of the k non-null values in row order and the column is valid iff
\* 10 * parsed >= 7 * sample (a ratio of exactly 0.70 is valid).
C7_ValidatorThreshold ==
    (res # <<>>) => ThresholdDecides

\* C7 (columns without a text read as NaT): the threshold decides.
C7_ThresholdWithoutNaT ==
    (res # <<>> /\ (HasColumn(arg.df, arg.timestamp_col)
                      => \A i \in 1..Len(arg.df.rows) : ColCell(i) # TsNat))
       => ThresholdDecides

\* C7 witness: a column of more than 50 non-null values whose first 50 parse at a
\* ratio of exactly 0.70, validated as valid.
C7_Witness ==
    /\ res # <<>>
    /\ HasColumn(arg.df, arg.timestamp_col)
    /\ Cardinality({i \in 1..Len(arg.df.rows) : ~IsNa(ColCell(i))}) > 50
    /\ Cardinality(SamplePos) = 50
    /\ SampleParsed = 35
    /\ res[1].valid

----------------------------------------------------------------------------
(* The pager on its own *)

\* Largest table, page number and page size of the pager check (pages from -MaxPage).
MaxPagerRows == 25
MaxPage == 4
MaxPageSize == 10

PagerInit ==
    /\ PipeIdle
    /\ arg \in { [rows |-> [i \in 1..n |-> i], page |-> p, page_size |-> z]
                 : n \in 0..MaxPagerRows, p \in (0 - MaxPage)..MaxPage, z \in 0..MaxPageSize }
    /\ res = <<>>

PagerCall ==
    /\ res = <<>>
    /\ res' = <<[rows |-> PageSlice(arg.rows, arg.page, arg.page_size),
                 pages |-> PageCount(Len(arg.rows), arg.page_size)]>>
    /\ UNCHANGED <<arg, pipeVars>>

PagerNext == PagerCall

PagerSpec == PagerInit /\ [][PagerNext]_vars

\* 0-based positions lo..hi-1 of the table that exist, in table order.
RowsAt(lo, hi) ==
    LET P == {i \in 0..(Len(arg.rows) - 1) : lo <= i /\ i < hi}
    IN [n \in 1..Cardinality(P) |-> arg.rows[(CHOOSE i \in P : \A j \in P : i <= j) + n]]

\* C6 as claimed: the rows returned are those at positions
\* [(page-1)*page_size, page*page_size) that exist, for every integer page; a negative
\* start (page <= 0) or a start past the end gives no rows.
C6_SliceForEveryPage ==
    (res # <<>>) =>
        res[1].rows = RowsAt((arg.page - 1) * arg.page_size, arg.page * arg.page_size)

\* C6 amended: for page >= 1 the rows returned are those at positions
\* [(page-1)*page_size, page*page_size) that exist (none when the start is past the
\* end); for page <= 0 the start is clamped to 0 and the rows returned are those of the
\* first page, positions [0, page_size).
C6_SliceClampedToFirstPage ==
    (res # <<>>) =>
        IF arg.page >= 1
        THEN res[1].rows = RowsAt((arg.page - 1) * arg.page_size, arg.page * arg.page_size)
        ELSE res[1].rows = RowsAt(0, arg.page_size)

\* C6 witness: page 0 of a table of 25 rows with page size 10 returned the first 10 rows.
C6_Witness ==
    /\ res # <<>>
    /\ Len(arg.rows) = 25 /\ arg.page = 0 /\ arg.page_size = 10
    /\ res[1].rows = [n \in 1..10 |-> n]

----------------------------------------------------------------------------
(* The request handlers: api_data, index and api_deduplicate over load_sheet_df *)

TsEmpty == Str(<<>>)

SheetRows(cells) ==
    [i \in 1..Len(cells) |-> MkRow(i, [UserId |-> cells[i][1], UpdatedAt |-> cells[i][2]])]

\* The contents the worksheet takes: get_all_records() gives text cells, "" for an
\* empty one. Four rows of which one has no timestamp (the column validates at 3/4),
\* and three rows in three formats.
SheetVersions ==
    { MkTable(SheetCols, SheetRows(<< <<KeyA, TsIso>>, <<KeyA, TsUs>>,
                                      <<KeyB, TsIsoClock>>, <<KeyB, TsEmpty>> >>)),
      MkTable(SheetCols, SheetRows(<< <<KeyA, TsSlash>>, <<KeyB, TsIso>>, <<KeyB, TsUs>> >>)) }

\* Request parameters. "" stands for an absent parameter, " " for a blank one.
ColumnParams == {"", " ", "UserId", "UpdatedAt", "Missing"}
PeriodParams == {"", "day", "week", "month"}
OrderParams == {"asc", "desc", "newest"}
SearchParams == {<<>>, <<ChSpace>>, <<48, 49, 47>>}
PageParams == {0, 1, 2}
PageSizeParams == {0, 2}
Endpoints == {"api_data", "index", "api_deduplicate"}

\* p and p.strip()
NonBlank(p) == p \notin {"", " "}

\* if sort_order not in ['asc', 'desc']: sort_order = 'desc'
NormalOrder(o) == IF o \in {"asc", "desc"} THEN o ELSE "desc"

None == <<>>

\* No table (yet).
NoTable == MkTable(<<>>, <<>>)

\* load_sheet_df(sheet): the cached table if the entry is alive; otherwise the
\* worksheet is read and cached, or reading it fails and ValueError is raised.
load_sheet_df ==
    IF cache # <<>> THEN {[ok |-> TRUE, df |-> cache[1], cache |-> cache]}
    ELSE {[ok |-> TRUE, df |-> sheet, cache |-> <<sheet>>],
          [ok |-> FALSE, df |-> NoTable, cache |-> cache]}

\* A faulty error slot: a later error replaces the one recorded.
RecordErrorOverwrite(error_message, message) == <<message>>

\* if not error_message: error_message = str(e)
RecordError(error_message, message) ==
    IF error_message = None THEN <<message>> ELSE error_message

\* A faulty guard: sorting is skipped after grouping only.
SortWantedUnlessGrouped(grouped, deduplicated, sort_column) ==
    ~grouped /\ NonBlank(sort_column)

\* if not grouped and not deduplicated and sort_column and sort_column.strip()
SortWanted(grouped, deduplicated, sort_column) ==
    ~grouped /\ ~deduplicated /\ NonBlank(sort_column)

InitLoc(t) ==
    [error_message |-> None, grouped |-> FALSE, deduplicated |-> FALSE,
     duplicates_removed |-> 0, original_count |-> Len(t.rows)]

InitHist(t) ==
    [fetched |-> t, dedup |-> "skipped", dedup_out |-> NoTable, after_dedup |-> NoTable,
     group |-> "skipped", after_group |-> NoTable, sort |-> "skipped",
     sort_asked |-> FALSE, sort_column |-> "", sort_in |-> NoTable,
     errors |-> <<>>, order |-> <<>>]

\* An exception leaves the handler (the server answers 500).
Unhandled == [kind |-> "exception"]

Init ==
    /\ sheet \in SheetVersions
    /\ cache \in {<<>>, <<sheet>>}
    /\ pc = "fetch"
    /\ req \in [endpoint : Endpoints, sort_order : OrderParams]
    /\ df = NoTable /\ original_df = NoTable
    /\ loc = InitLoc(NoTable) /\ hist = InitHist(NoTable)
    /\ resp = [kind |-> "none"]
    /\ arg = None /\ res = None

\* The steps of a handler that may call load_sheet_df: the worksheet and the cache are
\* followed up to the last of them (nothing reads them afterwards).
LoadingSteps == {"fetch", "dedup", "group"}

\* The worksheet is edited upstream.
SheetEdit ==
    /\ pc \in LoadingSteps
    /\ sheet' \in SheetVersions \ {sheet}
    /\ UNCHANGED <<cache, pc, req, df, original_df, loc, resp, hist, fnVars>>

\* The cache entry reaches its TTL (or is evicted).
CacheExpire ==
    /\ pc \in LoadingSteps /\ cache # <<>>
    /\ cache' = <<>>
    /\ UNCHANGED <<sheet, pc, req, df, original_df, loc, resp, hist, fnVars>>

\* Another request loads the sheet and fills the cache.
OtherRequestLoads ==
    /\ pc \in LoadingSteps /\ cache = <<>>
    /\ cache' = <<sheet>>
    /\ UNCHANGED <<sheet, pc, req, df, original_df, loc, resp, hist, fnVars>>

\* Lines 344-357, 482-490, 547-576: the first load_sheet_df and the locals.
Fetch ==
    /\ pc = "fetch"
    /\ \E l \in load_sheet_df :
          /\ cache' = l.cache
          /\ IF l.ok
             THEN /\ df' = l.df
                  /\ original_df' = IF req.endpoint = "api_data" THEN NoTable ELSE l.df
                  /\ loc' = InitLoc(l.df)
                  /\ hist' = InitHist(l.df)
                  /\ req' = [req EXCEPT !.sort_order = NormalOrder(@)]
                  /\ pc' = "dedup"
                  /\ resp' = resp
             ELSE /\ resp' = [kind |-> IF req.endpoint = "index" THEN "error_page" ELSE "json",
                              status |-> IF req.endpoint = "index" THEN 200 ELSE 400,
                              error |-> <<<<"Error loading sheet", "">>>>]
                  /\ pc' = "done"
                  /\ UNCHANGED <<df, original_df, loc, hist, req>>
    /\ UNCHANGED <<sheet, fnVars>>

\* (original_df is index()'s copy of the first fetch and, in api_deduplicate, the
\* fetched df, which that handler keeps beside df_deduped.)
\* The table a failed stage hands on: index() takes its copy of the first fetch,
\* api_data calls load_sheet_df again; <<table, cache>> pairs, or a raised ValueError.
Rollback ==
    IF req.endpoint = "index"
    THEN {[ok |-> TRUE, df |-> original_df, cache |-> cache]}
    ELSE load_sheet_df

\* Lines 359-367 and 578-585: the deduplication stage of api_data and index.
DedupStage ==
    /\ pc = "dedup" /\ req.endpoint \in {"api_data", "index"}
    /\ \E dedupe_field \in ColumnParams, dedupe_timestamp \in ColumnParams :
          IF NonBlank(dedupe_field) /\ NonBlank(dedupe_timestamp)
          THEN \E r \in deduplicate_by_field(df, dedupe_field, dedupe_timestamp, req.sort_order) :
                 IF r.ok
                 THEN /\ df' = r.df
                      /\ loc' = [loc EXCEPT !.duplicates_removed = r.removed,
                                            !.deduplicated = TRUE]
                      /\ hist' = [hist EXCEPT !.dedup = "ok", !.dedup_out = r.df,
                                              !.after_dedup = r.df,
                                              !.order = Append(@, "dedup")]
                      /\ pc' = "group"
                      /\ UNCHANGED <<cache, resp>>
                 ELSE \E l \in Rollback :
                        /\ cache' = l.cache
                        /\ loc' = [loc EXCEPT !.error_message = <<r.error>>]
                        /\ IF l.ok
                           THEN /\ df' = l.df
                                /\ hist' = [hist EXCEPT !.dedup = "failed",
                                                        !.after_dedup = l.df,
                                                        !.errors = Append(@, r.error),
                                                        !.order = Append(@, "dedup")]
                                /\ pc' = "group"
                                /\ resp' = resp
                           ELSE /\ df' = df
                                /\ hist' = [hist EXCEPT !.dedup = "failed",
                                                        !.errors = Append(@, r.error),
                                                        !.order = Append(@, "dedup")]
                                /\ pc' = "done"
                                /\ resp' = Unhandled
          ELSE /\ pc' = "group"
               /\ hist' = [hist EXCEPT !.after_dedup = df]
               /\ UNCHANGED <<df, loc, cache, resp>>
    /\ UNCHANGED <<sheet, req, original_df, fnVars>>

\* Lines 369-385 and 587-604: the grouping stage.
GroupStage ==
    /\ pc = "group"
    /\ \E group_by_period \in PeriodParams, timestamp_column \in ColumnParams :
          IF NonBlank(group_by_period) /\ NonBlank(timestamp_column)
          THEN IF group_by_period \notin {"day", "week"}
               THEN LET m == <<"Invalid grouping period", group_by_period>>
                    IN /\ loc' = [loc EXCEPT !.error_message = RecordError(@, m)]
                       /\ hist' = [hist EXCEPT !.group = "invalid_period",
                                               !.after_group = df,
                                               !.errors = Append(@, m),
                                               !.order = Append(@, "group")]
                       /\ pc' = "sort"
                       /\ UNCHANGED <<df, cache, resp>>
               ELSE \E r \in {group_by_time_period(df, timestamp_column, group_by_period,
                                                    req.sort_order)} :
                       IF r.ok
                       THEN /\ df' = r.df
                            /\ loc' = [loc EXCEPT !.grouped = TRUE]
                            /\ hist' = [hist EXCEPT !.group = "ok", !.after_group = r.df,
                                                    !.order = Append(@, "group")]
                            /\ pc' = "sort"
                            /\ UNCHANGED <<cache, resp>>
                       ELSE /\ loc' = [loc EXCEPT !.error_message = RecordError(@, r.error)]
                            /\ IF loc.deduplicated
                               THEN /\ hist' = [hist EXCEPT !.group = "failed",
                                                            !.after_group = df,
                                                            !.errors = Append(@, r.error),
                                                            !.order = Append(@, "group")]
                                    /\ pc' = "sort"
                                    /\ UNCHANGED <<df, cache, resp>>
                               ELSE \E l \in Rollback :
                                      /\ cache' = l.cache
                                      /\ IF l.ok
                                         THEN /\ df' = l.df
                                              /\ hist' = [hist EXCEPT !.group = "failed",
                                                              !.after_group = l.df,
                                                              !.errors = Append(@, r.error),
                                                              !.order = Append(@, "group")]
                                              /\ pc' = "sort"
                                              /\ resp' = resp
                                         ELSE /\ df' = df
                                              /\ hist' = [hist EXCEPT !.group = "failed",
                                                              !.errors = Append(@, r.error),
                                                              !.order = Append(@, "group")]
                                              /\ pc' = "done"
                                              /\ resp' = Unhandled
          ELSE /\ pc' = "sort"
               /\ hist' = [hist EXCEPT !.after_group = df]
               /\ UNCHANGED <<df, loc, cache, resp>>
    /\ UNCHANGED <<sheet, req, original_df, fnVars>>

\* Lines 387-393 and 606-612: the sorting stage.
SortStage ==
    /\ pc = "sort"
    /\ \E sort_column \in ColumnParams :
          IF SortWanted(loc.grouped, loc.deduplicated, sort_column)
          THEN \E r \in apply_timestamp_sorting(df, sort_column, req.sort_order) :
                 IF r.ok
                 THEN /\ df' = r.df
                      /\ loc' = loc
                      /\ hist' = [hist EXCEPT !.sort = "ok", !.sort_column = sort_column,
                                              !.sort_asked = TRUE, !.sort_in = df,
                                              !.order = Append(@, "sort")]
                 ELSE /\ df' = df
                      /\ loc' = [loc EXCEPT !.error_message = RecordError(@, r.error)]
                      /\ hist' = [hist EXCEPT !.sort = "failed", !.sort_column = sort_column,
                                              !.sort_asked = TRUE, !.sort_in = df,
                                              !.errors = Append(@, r.error),
                                              !.order = Append(@, "sort")]
          ELSE /\ hist' = [hist EXCEPT !.sort_asked = NonBlank(sort_column)]
               /\ UNCHANGED <<df, loc>>
    /\ pc' = "search"
    /\ UNCHANGED <<sheet, cache, req, original_df, resp, fnVars>>

\* Lines 395-398, 495-498 and 614-617: the search filter.
SearchStage ==
    /\ pc = "search"
    /\ \E q \in SearchParams :
          /\ df' = IF HasText(q) THEN MkTable(df.cols, SearchRows(df, q)) ELSE df
          /\ hist' = [hist EXCEPT !.order = Append(@, "search")]
    /\ pc' = "page"
    /\ UNCHANGED <<sheet, cache, req, original_df, loc, resp, fnVars>>

\* Lines 400-431, 500-527 and 619-659: pagination and the response (the rows are those
\* of page_df; the markup process_cell_content puts into their cells is left out).
PageStage ==
    /\ pc = "page"
    /\ \E page \in PageParams, page_size \in PageSizeParams :
          resp' = IF req.endpoint = "api_deduplicate"
                  THEN [kind |-> "json",
                        status |-> 200,
                        total |-> Len(df.rows),
                        page |-> page,
                        page_size |-> page_size,
                        pages |-> PageCount(Len(df.rows), page_size),
                        rows |-> PageSlice(df.rows, page, page_size),
                        deduplicated |-> TRUE,
                        duplicates_removed |-> loc.duplicates_removed,
                        original_count |-> Len(original_df.rows)]
                  ELSE [kind |-> IF req.endpoint = "index" THEN "page" ELSE "json",
                        status |-> 200,
                        total |-> Len(df.rows),
                        page |-> page,
                        page_size |-> page_size,
                        pages |-> PageCount(Len(df.rows), page_size),
                        rows |-> PageSlice(df.rows, page, page_size),
                        grouped |-> loc.grouped,
                        deduplicated |-> loc.deduplicated,
                        duplicates_removed |-> loc.duplicates_removed,
                        original_count |-> loc.original_count,
                        error |-> loc.error_message]
    /\ hist' = [hist EXCEPT !.order = Append(@, "page")]
    /\ pc' = "done"
    /\ UNCHANGED <<sheet, cache, req, df, original_df, loc, fnVars>>

\* Lines 487-493 and 529-530: api_deduplicate's deduplication; a ValueError ends the
\* request with status 400 and the error alone.
DeduplicateEndpoint ==
    /\ pc = "dedup" /\ req.endpoint = "api_deduplicate"
    /\ \E dedupe_field \in ColumnParams, timestamp_field \in ColumnParams :
          \E r \in deduplicate_by_field(df, dedupe_field, timestamp_field, req.sort_order) :
             IF r.ok
             THEN /\ df' = r.df
                  /\ loc' = [loc EXCEPT !.duplicates_removed = r.removed,
                                        !.deduplicated = TRUE]
                  /\ hist' = [hist EXCEPT !.dedup = "ok", !.dedup_out = r.df,
                                          !.after_dedup = r.df,
                                          !.order = Append(@, "dedup")]
                  /\ pc' = "search"
                  /\ resp' = resp
             ELSE /\ resp' = [kind |-> "json", status |-> 400, error |-> <<r.error>>]
                  /\ hist' = [hist EXCEPT !.dedup = "failed",
                                          !.errors = Append(@, r.error),
                                          !.order = Append(@, "dedup")]
                  /\ pc' = "done"
                  /\ UNCHANGED <<df, loc>>
    /\ UNCHANGED <<sheet, cache, req, original_df, fnVars>>

Next ==
    \/ SheetEdit \/ CacheExpire \/ OtherRequestLoads
    \/ Fetch \/ DedupStage \/ DeduplicateEndpoint \/ GroupStage \/ SortStage
    \/ SearchStage \/ PageStage

Spec == Init /\ [][Next]_vars

(***************************************************************************)
(* Claims about the request handlers (checked under Spec).                 *)
(***************************************************************************)

\* The invocation is api_data's or index's and has left the given stage behind with a table.
Composer == req.endpoint \in {"api_data", "index"}

\* The handler has answered with rows and pagination data.
Answered == pc = "done" /\ resp.kind \in {"json", "page"} /\ resp.status = 200

FirstError == IF hist.errors = <<>> THEN None ELSE <<hist.errors[1]>>

\* C1: in api_data and index, when deduplication fails the table handed to the
\* following stages is the table fetched at the start of the invocation; when
\* deduplication succeeds and grouping fails it is the deduplicated table; when
\* grouping fails without a deduplicated table it is again the fetched table.
C1_RollbackRestoresFetched ==
    Composer =>
      /\ (hist.dedup = "failed" /\ pc \in {"group", "sort", "search", "page"})
            => hist.after_dedup = hist.fetched
      /\ (hist.group = "failed" /\ pc \in {"sort", "search", "page"})
            => hist.after_group = IF hist.dedup = "ok" THEN hist.dedup_out
                                                       ELSE hist.fetched

\* C1 (index only): the copy taken at the first fetch makes the rollback exact.
C1_IndexRollbackRestoresFetched ==
    req.endpoint = "index" => C1_RollbackRestoresFetched /\ resp # Unhandled

\* C2: the error message of a result is the message of the earliest failing stage
\* (dedup, group, sort), absent iff no stage failed; the slot holds it from the
\* moment it is recorded.
C2_FirstErrorWins ==
    /\ (Composer /\ pc # "fetch") => loc.error_message = FirstError
    /\ (Composer /\ Answered) => resp.error = FirstError

\* C2: once recorded, the error message never changes.
C2_ErrorNeverChanges ==
    [][loc.error_message # None => loc'.error_message = loc.error_message]_vars

\* Two stages failed with different messages and the result carries the first.
C2_Witness ==
    /\ Composer /\ Answered
    /\ Len(hist.errors) >= 2
    /\ hist.errors[2] # hist.errors[1]
    /\ resp.error = <<hist.errors[1]>>

\* C3: in api_data and api_deduplicate a failed stage never aborts the request: the
\* response carries the error message together with the rows and the pagination
\* data computed over the table left by search.
C3_StageFailureKeepsRows ==
    (pc = "done" /\ req.endpoint \in {"api_data", "api_deduplicate"}
                 /\ hist.errors # <<>>)
      => /\ Answered
         /\ resp.total = Len(df.rows)
         /\ resp.pages = PageCount(Len(df.rows), resp.page_size)
         /\ resp.rows = PageSlice(df.rows, resp.page, resp.page_size)
         /\ resp.error = FirstError

\* C3 (api_data, when the rollback's second load succeeds): the degraded answer.
C3_ApiDataDegradesWhenReloadSucceeds ==
    (pc = "done" /\ req.endpoint = "api_data" /\ hist.errors # <<>>
                 /\ resp # Unhandled)
      => /\ Answered
         /\ resp.total = Len(df.rows)
         /\ resp.rows = PageSlice(df.rows, resp.page, resp.page_size)
         /\ resp.error = FirstError

StageRank(stage) ==
    CASE stage = "dedup" -> 1 [] stage = "group" -> 2 [] stage = "sort" -> 3
      [] stage = "search" -> 4 [] stage = "page" -> 5

\* C4: the stages run in the order dedup, group, sort, search, pagination, and the
\* sorter is called only when neither deduplication nor grouping took effect and a
\* non-blank sort column was given.
C4_StageOrderAndSortSkipping ==
    /\ \A i, j \in 1..Len(hist.order) :
          i < j => StageRank(hist.order[i]) < StageRank(hist.order[j])
    /\ hist.sort # "skipped"
          => /\ hist.dedup # "ok" /\ hist.group # "ok"
             /\ ~loc.deduplicated /\ ~loc.grouped
             /\ NonBlank(hist.sort_column)
    /\ (Composer /\ pc \in {"search", "page", "done"} /\ resp # Unhandled
          /\ hist.dedup # "ok" /\ hist.group # "ok" /\ hist.sort_asked)
          => hist.sort # "skipped"
    /\ Answered => /\ Len(hist.order) >= 2
                   /\ hist.order[Len(hist.order)] = "page"
                   /\ hist.order[Len(hist.order) - 1] = "search"

\* A sort column was given, deduplication took effect and the sorter was skipped;
\* dedup, search and pagination ran in that order.
C4_Witness ==
    /\ Composer /\ Answered
    /\ hist.sort_asked /\ hist.dedup = "ok" /\ hist.sort = "skipped"
    /\ hist.order = <<"dedup", "search", "page">>

\* The sorter ran after a failed deduplication and a failed grouping.
C4_SortRanWitness ==
    /\ Composer /\ Answered
    /\ hist.order = <<"dedup", "group", "sort", "search", "page">>

\* C5: in every result, deduplicated is true iff the deduplication succeeded (and its
\* output is what the later stages consumed), grouped is true iff the grouping
\* succeeded, duplicates_removed is 0 when deduplicated is false and else the
\* fetched row count minus the deduplicated row count, and original_count is the
\* row count of the fetched table.
C5_FlagsReportEffect ==
    Answered =>
      /\ resp.deduplicated <=> hist.dedup = "ok"
      /\ resp.deduplicated => hist.after_dedup = hist.dedup_out
      /\ Composer => (resp.grouped <=> hist.group = "ok")
      /\ resp.duplicates_removed =
            IF resp.deduplicated
            THEN Len(hist.fetched.rows) - Len(hist.dedup_out.rows)
            ELSE 0
      /\ resp.original_count = Len(hist.fetched.rows)

\* A result whose deduplication dropped a row with an unparseable timestamp and a
\* duplicate, and whose requested grouping failed.
C5_Witness ==
    /\ Composer /\ Answered
    /\ resp.deduplicated /\ ~resp.grouped /\ hist.group = "failed"
    /\ resp.original_count = 4 /\ resp.duplicates_removed = 2
    /\ Len(hist.dedup_out.rows) = 2

\* The sorter was called (a non-blank sort column was given and sorting was not
\* skipped) on a column the Column Validator finds invalid on the table it was given.
SortedOnInvalidColumn ==
    /\ Composer /\ pc \in {"search", "page", "done"} /\ hist.sort # "skipped"
    /\ ~validate_timestamp_column(hist.sort_in, hist.sort_column).valid

\* The sorter failed, its message is recorded (the first error recorded stays) and the
\* table is left as it was.
SortFailureRecorded ==
    /\ hist.sort = "failed"
    /\ hist.errors # <<>>
    /\ hist.errors[Len(hist.errors)] =
          validate_timestamp_column(hist.sort_in, hist.sort_column).message
    /\ loc.error_message = FirstError
    /\ pc = "search" => df = hist.sort_in

\* C13: whenever a non-blank sort column is requested, sorting is not skipped and the
\* Column Validator returns invalid for the column on the current table (absent
\* column, no non-null value, parse ratio below 0.70), the sorter fails, the pipeline
\* records the error message (unless an earlier one is recorded) and the table stays
\* unsorted.
C13_SorterRejectsInvalidColumn ==
    SortedOnInvalidColumn => SortFailureRecorded

\* C13 (columns present in the table): an invalid column makes the sorter fail.
C13_PresentInvalidColumnFails ==
    (SortedOnInvalidColumn /\ HasColumn(hist.sort_in, hist.sort_column))
       => SortFailureRecorded

----------------------------------------------------------------------------
(* group_by_time_period on its own *)

\* Cells of the timestamp column of the tables grouped: a Monday, the Tuesday after
\* it, the Sunday before it (in the year before), a day a year later, a text that is
\* no date, a text read as NaT, and a missing value.
GroupCellSeq == <<TsIso, TsIsoNext, TsSlash, TsUs, TsBad, TsNat, Null>>
GroupCells == Range(GroupCellSeq)

\* Largest table grouped with its cells in every order, and largest table grouped
\* with its cells in the order of GroupCellSeq.
MaxShuffledRows == 3
MaxGroupRows == 5

\* The table of the given timestamp cells, UserId missing in the rows at even positions.
GroupTable(ts) ==
    MkTable(SheetCols,
            [i \in 1..Len(ts) |->
                MkRow(i, [UserId |-> IF i % 2 = 0 THEN Null ELSE KeyA, UpdatedAt |-> ts[i]])])

\* The tables of n rows, cells in every order.
GroupTablesOfLen(n) == { GroupTable(ts) : ts \in [1..n -> GroupCells] }

\* The tables of n rows whose cells follow the order of GroupCellSeq.
OrderedGroupTablesOfLen(n) ==
    { GroupTable([i \in 1..n |-> GroupCellSeq[at[i]]])
      : at \in {a \in [1..n -> 1..Len(GroupCellSeq)] : \A i \in 1..(n - 1) : a[i] <= a[i + 1]} }

GroupTables ==
    UNION { GroupTablesOfLen(k) : k \in 0..MaxShuffledRows }
      \cup UNION { OrderedGroupTablesOfLen(k) : k \in 0..MaxGroupRows }

\* The calls made: both periods, ascending, descending and under an order that is
\* neither, an absent column, a period that is neither day nor week.
GroupCalls ==
    ({"UpdatedAt"} \X {"day", "week"} \X {"asc", "desc"})
        \cup {<<"UpdatedAt", "week", "newest">>, <<"Missing", "day", "desc">>,
              <<"UpdatedAt", "month", "desc">>}

GroupInit ==
    /\ PipeIdle
    /\ arg \in { [df |-> t, timestamp_col |-> c[1], period |-> c[2], sort_order |-> c[3]]
                 : t \in GroupTables, c \in GroupCalls }
    /\ res = <<>>

GroupCall ==
    /\ res = <<>>
    /\ res' = <<group_by_time_period(arg.df, arg.timestamp_col, arg.period,
                                     arg.sort_order)>>
    /\ UNCHANGED <<arg, pipeVars>>

GroupNext == GroupCall

GroupSpec == GroupInit /\ [][GroupNext]_vars

\* The call has returned or raised.
GroupReturned == res # <<>>

GroupCell(i) == arg.df.rows[i].c[arg.timestamp_col]

\* Positions of the rows whose timestamp parses.
GroupParsedPos ==
    IF HasColumn(arg.df, arg.timestamp_col)
    THEN {i \in 1..Len(arg.df.rows) : ParsesToTimestamp(GroupCell(i))}
    ELSE {}

\* The calendar day of a row's timestamp and the start date of its bucket.
DayOf(i) == parse_timestamp(GroupCell(i))[1].day
BucketStart(i) == IF arg.period = "day" THEN DayOf(i) ELSE DayOf(i) - Weekday(DayOf(i))

BucketStarts == {BucketStart(i) : i \in GroupParsedPos}

\* The label of the bucket that starts on the given date.
LabelOf(start) ==
    IF arg.period = "day" THEN Date(start) ELSE Str(WeekOf \o IsoDate(start))

ResultLabel(n) == res[1].df.rows[n].c[GroupColumn(arg.period)]
ResultCount(n) == res[1].df.rows[n].c[arg.timestamp_col].v[1]

\* The start date and the label of the bucket of every parseable row, and the labels
\* and the timestamp column's counts of the rows returned.
StartOfPos == [i \in GroupParsedPos |-> BucketStart(i)]
LabelOfPos == [i \in GroupParsedPos |-> LabelOf(BucketStart(i))]
ResultLabels == [n \in 1..Len(res[1].df.rows) |-> ResultLabel(n)]
ResultCounts == [n \in 1..Len(res[1].df.rows) |-> ResultCount(n)]

\* Grouping by day, descending, a table of k + 1 rows: k parseable values of k
\* different days and the text that is no date.
OneUnparseableAmong(k) ==
    /\ arg.timestamp_col = "UpdatedAt" /\ arg.period = "day" /\ arg.sort_order = "desc"
    /\ Len(arg.df.rows) = k + 1
    /\ \E i \in 1..(k + 1) : GroupCell(i) = TsBad
    /\ Cardinality(GroupParsedPos) = k
    /\ Cardinality(BucketStarts) = k

\* The buckets of the parseable rows, one row each with count 1, latest day first.
OneBucketPerParsedRowLatestFirst ==
    /\ res[1].ok
    /\ LET labelOf == LabelOfPos
           labels == ResultLabels
       IN /\ Len(labels) = Cardinality(DOMAIN labelOf)
          /\ \A n \in 1..Len(labels) :
                /\ ResultCount(n) = 1
                /\ \E i \in DOMAIN labelOf : labels[n] = labelOf[i]
          /\ \A n \in 1..(Len(labels) - 1) : labels[n].v[1] > labels[n + 1].v[1]

\* C11: grouping by day (descending) a 3-row table of two distinct parseable dates
\* and one unparseable value succeeds, excludes the unparseable row and yields
\* exactly 2 buckets of count 1, the later date first.
C11_TwoOfThreeGroups ==
    (GroupReturned /\ OneUnparseableAmong(2)) => OneBucketPerParsedRowLatestFirst

\* C11 (as the code has it): with 2 of 3 values parsing the column fails validation
\* (0.667 < 0.70) and the grouping fails with the validator's message; with 3 of 4
\* (three distinct dates and one unparseable value) it succeeds, excludes the
\* unparseable row and yields exactly 3 buckets of count 1, the latest date first.
C11_ThreeOfFourGroups ==
    GroupReturned =>
      /\ OneUnparseableAmong(2)
            => /\ ~res[1].ok
               /\ res[1].error = <<"Column contains insufficient valid timestamp data",
                                   arg.timestamp_col>>
      /\ OneUnparseableAmong(3) => OneBucketPerParsedRowLatestFirst

\* The scenario's table, ["2024-01-01", "2024-01-02", "not-a-date"], was grouped by
\* day, and so was a table of three distinct dates and one unparseable value.
C11_Witness ==
    /\ GroupReturned /\ OneUnparseableAmong(2)
    /\ [i \in 1..3 |-> GroupCell(i)] = <<TsIso, TsIsoNext, TsBad>>
    /\ ~res[1].ok

\* Three of four values parse and the three buckets come latest first.
C11_ThreeOfFourWitness ==
    /\ GroupReturned /\ OneUnparseableAmong(3)
    /\ res[1].ok /\ Len(res[1].df.rows) = 3

RECURSIVE SumOf(_, _)
SumOf(counts, n) == IF n = 0 THEN 0 ELSE counts[n] + SumOf(counts, n - 1)

\* Every parseable row is counted in exactly one bucket: one result row carries the
\* label of its bucket, and the timestamp column's counts add up to the parseable rows.
ParsedRowsConserved ==
    /\ res[1].ok
    /\ LET labelOf == LabelOfPos
           labels == ResultLabels
           counts == ResultCounts
       IN /\ \A i \in DOMAIN labelOf :
                Cardinality({n \in 1..Len(labels) : labels[n] = labelOf[i]}) = 1
          /\ \A n \in 1..Len(labels) :
                counts[n] = Cardinality({i \in DOMAIN labelOf : labelOf[i] = labels[n]})
          /\ SumOf(counts, Len(counts)) = Cardinality(DOMAIN labelOf)

\* C12: for every column that passes validate_timestamp_column, grouping by day and by
\* week does not fail, each row with a parseable timestamp falls in exactly one
\* bucket, and the timestamp column's counts sum to the number of parseable rows.
C12_GroupingConservesRows ==
    (GroupReturned /\ arg.period \in {"day", "week"}
                   /\ validate_timestamp_column(arg.df, arg.timestamp_col).valid)
      => ParsedRowsConserved

\* C12 (columns without a text read as NaT): the conservation holds.
C12_ConservesWithoutNaT ==
    (GroupReturned /\ arg.period \in {"day", "week"}
                   /\ HasColumn(arg.df, arg.timestamp_col)
                   /\ (\A i \in 1..Len(arg.df.rows) : GroupCell(i) # TsNat)
                   /\ validate_timestamp_column(arg.df, arg.timestamp_col).valid)
      => ParsedRowsConserved

\* C12: whenever the grouping succeeds, the parseable rows are conserved.
C12_ConservesWhenGrouped ==
    (GroupReturned /\ res[1].ok) => ParsedRowsConserved

\* C14: the rows of every table returned by group_by_time_period are in order of the
\* bucket's start date (the day, or the Monday of the week), strictly increasing for
\* 'asc' and strictly decreasing for any other order, and each start date appears in
\* exactly one row.
C14_BucketsOrderedByStart ==
    (GroupReturned /\ res[1].ok) =>
      LET startOf == StartOfPos
          labelOf == LabelOfPos
          labels == ResultLabels
          startOfRow == [n \in 1..Len(labels) |->
                            {startOf[i] : i \in {j \in DOMAIN labelOf : labelOf[j] = labels[n]}}]
      IN /\ \A n \in 1..Len(labels) : Cardinality(startOfRow[n]) = 1
         /\ \A i \in DOMAIN startOf :
               Cardinality({n \in 1..Len(labels) : startOf[i] \in startOfRow[n]}) = 1
         /\ \A n \in 1..(Len(labels) - 1) :
               \A a \in startOfRow[n], b \in startOfRow[n + 1] :
                  IF arg.sort_order = "asc" THEN a < b ELSE a > b

\* Weeks on both sides of a year change and a year apart, returned latest first for
\* an order that is neither 'asc' nor 'desc'.
C14_Witness ==
    /\ GroupReturned /\ res[1].ok
    /\ arg.period = "week" /\ arg.sort_order = "newest"
    /\ Len(res[1].df.rows) = 3
    /\ ResultLabel(1) = Str(WeekOf \o IsoText(2024, 12, 30))
    /\ ResultLabel(2) = Str(WeekOf \o IsoText(2024, 1, 1))
    /\ ResultLabel(3) = Str(WeekOf \o IsoText(2023, 12, 25))

====
